---- MODULE Spec2Model ----
(***************************************************************************)
(* Model of bag_recorder_node.cpp: the BagRecorder node, its recording     *)
(* state machine (start_recording / stop_recording / control_callback),    *)
(* and main()'s startup on a MultiThreadedExecutor.                        *)
(*                                                                         *)
(* reset_bag_recording (lines 168-173) is private and nothing calls it:    *)
(* reset_bag_timer (line 176) is declared and never created.  No thread    *)
(* of the program reaches it, so the model has no step for it.             *)
(*                                                                         *)
(* Every statement of the controller that reads or writes shared state is  *)
(* one step of the thread running it; a thread's position is pc[t], named  *)
(* after the source line it is about to execute.                           *)
(***************************************************************************)
EXTENDS Integers, Sequences, FiniteSets, TLC

(* ------------------------------ bounds -------------------------------- *)

\* number of /bag_control messages published during a run
MaxSignals == 3
\* the wall clock advances at most MaxTime seconds past the launch
MaxTime == 1
\* number of redundant calls of the public start_recording (SpecApi only)
MaxRedundantStarts == 1

(* -------------------------- program constants -------------------------- *)

\* history depth of the /bag_control subscription (line 44)
QueueDepth == 10
\* storage_options_.max_cache_size (line 100)
MaxCacheSize == 10485760
\* default of the fileDuration parameter (line 42)
DefaultFileDuration == 60

\* the executor's threads: the thread that calls spin() and one worker
Threads == {"main", "w1"}

\* the node id of the BagRecorder node itself in the executor's registry
BagRecorderNode == 0
\* the null shared_ptr
Null == -1

\* values the launch configuration may give the parameters (lines 47-49)
FileDurations == {0, DefaultFileDuration}
TopicLists ==
  {<<>>, <<"*">>, <<"/rosout", "/labjack_ain">>, <<"*", "/rosout">>,
   <<"/rosout", "*">>, <<"/rosout", "/rosout">>}

\* the clock reading at launch: 2024-10-02T03:04:04Z, seconds since the epoch
StartEpoch == 1727838244

\* clock readings at launch that exercise the calendar (SpecPath)
TimeSamples == {0, 951825609, 1677628800, 1709251199, 1727838245, 1735689599, 1735689600}

VARIABLES
  \* configuration members (lines 177-180)
  data_folder_, file_duration_, logged_topics_,
  \* controller members (lines 178-186)
  executor, storage_options_, recorder_, writer_, recording,
  \* the executor: registered nodes, the node's callback group, spin state
  nodes, group_free, shutdown,
  \* every Recorder object constructed so far (its id is its index), and
  \* the number of Writer objects allocated so far
  recorders, nextWriter,
  \* the /bag_control subscription: queued messages, messages published,
  \* the message that arrived last
  queue, published, arrived,
  \* per thread: position, return address, message in hand, record_options
  pc, ret, msg, record_options,
  \* wall clock (seconds)
  now,
  \* an uncaught exception terminated the process; what threw
  aborted, exc,
  \* history: per-thread statistics of the callback in progress
  cur,
  \* history: the last two control signals processed, in order
  done,
  \* history: the controller operations completed so far (last two)
  ops

config == <<data_folder_, file_duration_, logged_topics_>>
members == <<executor, storage_options_, recorder_, writer_, recording>>
exec == <<nodes, group_free, shutdown>>
heap == <<recorders, nextWriter>>
sub == <<queue, published, arrived>>
thr == <<pc, ret, msg, record_options>>
fail == <<aborted, exc>>
hist == <<cur, done, ops>>
vars == <<config, members, exec, heap, sub, thr, now, fail, hist>>

(* ------------------------------ helpers -------------------------------- *)

\* the default-constructed rosbag2_storage::StorageOptions member (line 181)
DefaultStorageOptions ==
  [uri |-> "", storage_id |-> "", max_bagfile_size |-> 0,
   max_bagfile_duration |-> 0, max_cache_size |-> 0,
   storage_preset_profile |-> "", snapshot_mode |-> FALSE]

\* a default-constructed rosbag2_transport::RecordOptions local (line 107)
DefaultRecordOptions == [all |-> FALSE, topics |-> <<>>]

\* no callback statistics
NoCur == [begins |-> 0, ends |-> 0, before |-> FALSE, recorder |-> Null, stamp |-> Null]

\* std::gmtime (line 192): the broken-down UTC time of a time_t >= 0
gmtime(time) ==
  LET days == time \div 86400
      rem == time % 86400
      z == days + 719468
      era == z \div 146097
      doe == z - era * 146097
      yoe == (doe - doe \div 1460 + doe \div 36524 - doe \div 146096) \div 365
      doy == doe - (365 * yoe + yoe \div 4 - yoe \div 100)
      mp == (5 * doy + 2) \div 153
      mday == doy - (153 * mp + 2) \div 5 + 1
      mon == IF mp < 10 THEN mp + 3 ELSE mp - 9
      year == yoe + era * 400 + (IF mon <= 2 THEN 1 ELSE 0)
  IN  [tm_year |-> year - 1900, tm_mon |-> mon - 1, tm_mday |-> mday,
       tm_hour |-> rem \div 3600, tm_min |-> (rem % 3600) \div 60, tm_sec |-> rem % 60]

\* the decimal digits
Digit(d) == <<"0", "1", "2", "3", "4", "5", "6", "7", "8", "9">>[d + 1]

\* a natural number in decimal, as operator<< writes it
RECURSIVE Dec(_)
Dec(n) == IF n < 10 THEN Digit(n) ELSE Dec(n \div 10) \o Digit(n % 10)

\* mutant of Pad2: the field is written without padding
Pad2_NoPadding(n) == Dec(n)

\* a two-digit field of std::put_time (%m %d %H %M %S): zero-padded
Pad2(n) == IF n < 10 THEN "0" \o Dec(n) ELSE Dec(n)

\* std::put_time(&utc_tm, "%Y_%m_%d_%H_%M_%S") (line 194)
put_time(tm) ==
  Dec(tm.tm_year + 1900) \o "_" \o Pad2(tm.tm_mon + 1) \o "_" \o Pad2(tm.tm_mday) \o "_"
    \o Pad2(tm.tm_hour) \o "_" \o Pad2(tm.tm_min) \o "_" \o Pad2(tm.tm_sec)

\* getCurrentUtcTime(): the clock reading, formatted
getCurrentUtcTime == put_time(gmtime(now))

\* getDataPath(baseFolder): baseFolder + "/Bag_" + time
getDataPath(baseFolder) == baseFolder \o "/Bag_" \o getCurrentUtcTime

\* get_recorder() (lines 57-60): the stored handle
get_recorder == recorder_

\* the recorder nodes registered with the executor
RecorderUnits == nodes \ {BagRecorderNode}

InStart(t) == pc[t] \in {"sr_96", "sr_106", "sr_110", "sr_122", "sr_126", "sr_127", "sr_128"}
InStop(t) == pc[t] \in {"st_157", "st_159", "st_160", "st_161"}
InCallback(t) == pc[t] \in {"cb_140", "cb_145", "cb_150"} \/ ((InStart(t) \/ InStop(t)) /\ ret[t] \in {"cb_145", "cb_150"})

\* an uncaught exception: std::terminate ends the process where it stands
Throw(what) ==
  /\ aborted' = TRUE
  /\ exc' = what

\* a controller operation completed: keep the last two
Completed(op) == <<ops[2], op>>

\* a control signal was processed: keep the last two
Processed(entry) == IF Len(done) = 2 THEN <<done[2], entry>> ELSE Append(done, entry)

\* a call of start_recording() by thread t, to return to label r
CallStart(t, r) ==
  /\ pc' = [pc EXCEPT ![t] = "sr_96"]
  /\ ret' = [ret EXCEPT ![t] = r]
  /\ cur' = [cur EXCEPT ![t].begins = @ + 1]

\* a call of stop_recording() by thread t, to return to label r
CallStop(t, r) ==
  /\ pc' = [pc EXCEPT ![t] = "st_157"]
  /\ ret' = [ret EXCEPT ![t] = r]

(* ------------------------------- Init ---------------------------------- *)

\* the state after construction, the clock reading t0
Boot(t0) ==
  /\ data_folder_ = "/data"
  /\ file_duration_ \in FileDurations
  /\ logged_topics_ \in TopicLists
  /\ executor = Null
  /\ storage_options_ = DefaultStorageOptions
  /\ recorder_ = Null
  /\ writer_ = Null
  /\ recording = FALSE
  /\ nodes = {}
  /\ group_free = TRUE
  /\ shutdown = FALSE
  /\ recorders = <<>>
  /\ nextWriter = 0
  /\ queue = <<>>
  /\ published = 0
  /\ arrived = FALSE
  /\ pc = [t \in Threads |-> IF t = "main" THEN "main_213" ELSE "off"]
  /\ ret = [t \in Threads |-> "none"]
  /\ msg = [t \in Threads |-> FALSE]
  /\ record_options = [t \in Threads |-> DefaultRecordOptions]
  /\ now = t0
  /\ aborted = FALSE
  /\ exc = "none"
  /\ cur = [t \in Threads |-> NoCur]
  /\ done = <<>>
  /\ ops = <<"none", "none">>

Init == Boot(StartEpoch)

(* ------------------------------- main ---------------------------------- *)

\* lines 213-214: executor->add_node(bag_recorder_node); set_executor(executor)
main_213 ==
  /\ ~aborted /\ pc["main"] = "main_213"
  /\ nodes' = nodes \cup {BagRecorderNode}
  /\ executor' = 1
  /\ pc' = [pc EXCEPT !["main"] = "main_215"]
  /\ UNCHANGED <<config, storage_options_, recorder_, writer_, recording, group_free, shutdown,
                 heap, sub, ret, msg, record_options, now, fail, hist>>

\* mutant of main_215: main() goes to spin() without the startup start
main_215_NoAutoStart ==
  /\ ~aborted /\ pc["main"] = "main_215"
  /\ pc' = [pc EXCEPT !["main"] = "main_217"]
  /\ UNCHANGED <<config, members, exec, heap, sub, ret, msg, record_options, now, fail, hist>>

\* line 215: bag_recorder_node->start_recording()
main_215 ==
  /\ ~aborted /\ pc["main"] = "main_215"
  /\ CallStart("main", "main_217")
  /\ UNCHANGED <<config, members, exec, heap, sub, msg, record_options, now, fail,
                 done, ops>>

\* line 217: executor->spin() starts the worker threads and joins them
main_217 ==
  /\ ~aborted /\ pc["main"] = "main_217"
  /\ pc' = [t \in Threads |-> "spin"]
  /\ UNCHANGED <<config, members, exec, heap, sub, ret, msg, record_options, now, fail, hist>>

(* -------------------------- start_recording ---------------------------- *)

\* mutant of sr_96: the output path is derived once and kept
sr_96_PathOnce(t) ==
  /\ ~aborted /\ pc[t] = "sr_96"
  /\ storage_options_' =
       [uri |-> IF storage_options_.uri = "" THEN getDataPath(data_folder_)
                ELSE storage_options_.uri,
        storage_id |-> "mcap", max_bagfile_size |-> 0,
        max_bagfile_duration |-> file_duration_, max_cache_size |-> MaxCacheSize,
        storage_preset_profile |-> "", snapshot_mode |-> FALSE]
  /\ cur' = [cur EXCEPT ![t].stamp = now]
  /\ pc' = [pc EXCEPT ![t] = "sr_106"]
  /\ UNCHANGED <<config, executor, recorder_, writer_, recording, exec, heap, sub,
                 ret, msg, record_options, now, fail, done, ops>>

\* mutant of sr_96: the size limit is given the rotation duration
sr_96_SizeLimit(t) ==
  /\ ~aborted /\ pc[t] = "sr_96"
  /\ storage_options_' =
       [uri |-> getDataPath(data_folder_), storage_id |-> "mcap",
        max_bagfile_size |-> file_duration_,
        max_bagfile_duration |-> file_duration_, max_cache_size |-> MaxCacheSize,
        storage_preset_profile |-> "", snapshot_mode |-> FALSE]
  /\ cur' = [cur EXCEPT ![t].stamp = now]
  /\ pc' = [pc EXCEPT ![t] = "sr_106"]
  /\ UNCHANGED <<config, executor, recorder_, writer_, recording, exec, heap, sub,
                 ret, msg, record_options, now, fail, done, ops>>

\* lines 96-104: storage_options_ is filled in; the uri reads the clock
sr_96(t) ==
  /\ ~aborted /\ pc[t] = "sr_96"
  /\ storage_options_' =
       [uri |-> getDataPath(data_folder_), storage_id |-> "mcap", max_bagfile_size |-> 0,
        max_bagfile_duration |-> file_duration_, max_cache_size |-> MaxCacheSize,
        storage_preset_profile |-> "", snapshot_mode |-> FALSE]
  /\ cur' = [cur EXCEPT ![t].stamp = now]
  /\ pc' = [pc EXCEPT ![t] = "sr_106"]
  /\ UNCHANGED <<config, executor, recorder_, writer_, recording, exec, heap, sub,
                 ret, msg, record_options, now, fail, done, ops>>

\* line 106: writer_ = std::make_shared<rosbag2_cpp::Writer>()
sr_106(t) ==
  /\ ~aborted /\ pc[t] = "sr_106"
  /\ nextWriter' = nextWriter + 1
  /\ writer_' = nextWriter'
  /\ pc' = [pc EXCEPT ![t] = "sr_110"]
  /\ UNCHANGED <<config, executor, storage_options_, recorder_, recording, exec, recorders,
                 sub, ret, msg, record_options, now, fail, hist>>

\* mutant of sr_110: the wildcard branch passes the configured list on
sr_110_KeepsList(t) ==
  /\ ~aborted /\ pc[t] = "sr_110"
  /\ record_options' = [record_options EXCEPT ![t] =
       [all |-> logged_topics_ # <<>> /\ logged_topics_[1] = "*", topics |-> logged_topics_]]
  /\ pc' = [pc EXCEPT ![t] = "sr_122"]
  /\ UNCHANGED <<config, members, exec, heap, sub, ret, msg, now, fail, hist>>

\* lines 110-120: the topic scope.  logged_topics_[0] on an empty vector is
\* undefined behaviour: the read may fault, or compare either way.
sr_110(t) ==
  /\ ~aborted /\ pc[t] = "sr_110"
  /\ \E outcome \in (IF logged_topics_ = <<>> THEN {"fault", "all", "listed"}
                      ELSE IF logged_topics_[1] = "*" THEN {"all"} ELSE {"listed"}) :
       \/ /\ outcome = "fault"
          /\ Throw("logged_topics_[0]")
          /\ UNCHANGED <<pc, record_options>>
       \/ /\ outcome = "all"
          /\ record_options' = [record_options EXCEPT ![t] = [all |-> TRUE, topics |-> <<>>]]
          /\ pc' = [pc EXCEPT ![t] = "sr_122"]
          /\ UNCHANGED fail
       \/ /\ outcome = "listed"
          /\ record_options' = [record_options EXCEPT ![t] = [all |-> FALSE, topics |-> logged_topics_]]
          /\ pc' = [pc EXCEPT ![t] = "sr_122"]
          /\ UNCHANGED fail
  /\ UNCHANGED <<config, members, exec, heap, sub, ret, msg, now, hist>>

\* lines 122-123: recorder_ = std::make_shared<Recorder>(writer_, storage_options_,
\* record_options); the constructor may throw
sr_122(t) ==
  /\ ~aborted /\ pc[t] = "sr_122"
  /\ \E ok \in BOOLEAN :
       IF ok
       THEN /\ recorders' = Append(recorders, [writer |-> writer_, storage |-> storage_options_,
                                               options |-> record_options[t], state |-> "constructed",
                                               at |-> cur[t].stamp])
            /\ recorder_' = Len(recorders')
            /\ pc' = [pc EXCEPT ![t] = "sr_126"]
            /\ UNCHANGED fail
       ELSE /\ Throw("Recorder")
            /\ UNCHANGED <<recorders, recorder_, pc>>
  /\ UNCHANGED <<config, executor, storage_options_, writer_, recording, exec, nextWriter,
                 sub, ret, msg, record_options, now, hist>>

\* mutant of sr_126: the recording flag is raised with the registration,
\* before record() has succeeded
sr_126_FlagEarly(t) ==
  /\ ~aborted /\ pc[t] = "sr_126"
  /\ nodes' = nodes \cup {recorder_}
  /\ recording' = TRUE
  /\ pc' = [pc EXCEPT ![t] = "sr_127"]
  /\ UNCHANGED <<config, executor, storage_options_, recorder_, writer_, group_free, shutdown,
                 heap, sub, ret, msg, record_options, now, fail, hist>>

\* line 126: executor->add_node(recorder_); throws when the node is already
\* in an executor, or when the registration fails
sr_126(t) ==
  /\ ~aborted /\ pc[t] = "sr_126"
  /\ \E ok \in (IF recorder_ \in nodes \/ executor = Null THEN {FALSE} ELSE BOOLEAN) :
       IF ok
       THEN /\ nodes' = nodes \cup {recorder_}
            /\ pc' = [pc EXCEPT ![t] = "sr_127"]
            /\ UNCHANGED fail
       ELSE /\ Throw("add_node")
            /\ UNCHANGED <<nodes, pc>>
  /\ UNCHANGED <<config, members, group_free, shutdown, heap, sub, ret, msg,
                 record_options, now, hist>>

\* line 127: recorder_->record() opens the storage; it may throw
sr_127(t) ==
  /\ ~aborted /\ pc[t] = "sr_127"
  /\ \E ok \in BOOLEAN :
       IF ok
       THEN /\ recorders' = [recorders EXCEPT ![recorder_].state = "recording"]
            /\ pc' = [pc EXCEPT ![t] = "sr_128"]
            /\ UNCHANGED fail
       ELSE /\ Throw("record")
            /\ UNCHANGED <<recorders, pc>>
  /\ UNCHANGED <<config, members, exec, nextWriter, sub, ret, msg, record_options,
                 now, hist>>

\* lines 128-129: recording = true; return
sr_128(t) ==
  /\ ~aborted /\ pc[t] = "sr_128"
  /\ recording' = TRUE
  /\ pc' = [pc EXCEPT ![t] = ret[t]]
  /\ ret' = [ret EXCEPT ![t] = "none"]
  /\ record_options' = [record_options EXCEPT ![t] = DefaultRecordOptions]
  /\ ops' = Completed("start")
  /\ UNCHANGED <<config, executor, storage_options_, recorder_, writer_, exec, heap, sub, msg, now, fail, cur, done>>

(* --------------------------- stop_recording ---------------------------- *)

\* the return of stop_recording (line 163)
StopReturn(t) ==
  /\ pc' = [pc EXCEPT ![t] = ret[t]]
  /\ ret' = [ret EXCEPT ![t] = "none"]
  /\ ops' = Completed("stop")

\* mutant of st_157: the test of the recording flag is dropped
st_157_NoGuard(t) ==
  /\ ~aborted /\ pc[t] = "st_157"
  /\ pc' = [pc EXCEPT ![t] = "st_159"]
  /\ UNCHANGED <<config, members, exec, heap, sub, ret, msg, record_options, now, fail, hist>>

\* line 157: if (recording)
st_157(t) ==
  /\ ~aborted /\ pc[t] = "st_157"
  /\ IF recording
     THEN /\ pc' = [pc EXCEPT ![t] = "st_159"]
          /\ UNCHANGED <<ret, ops>>
     ELSE StopReturn(t)
  /\ UNCHANGED <<config, members, exec, heap, sub, msg, record_options, now, fail,
                 cur, done>>

\* line 159: recorder_->stop() closes the bag; it may throw
st_159(t) ==
  /\ ~aborted /\ pc[t] = "st_159"
  /\ cur' = [cur EXCEPT ![t].ends = @ + 1]
  /\ \E ok \in (IF recorder_ = Null THEN {FALSE} ELSE BOOLEAN) :
       IF ok
       THEN /\ recorders' = [recorders EXCEPT ![recorder_].state = "stopped"]
            /\ pc' = [pc EXCEPT ![t] = "st_160"]
            /\ UNCHANGED fail
       ELSE /\ Throw("stop")
            /\ UNCHANGED <<recorders, pc>>
  /\ UNCHANGED <<config, members, exec, nextWriter, sub, ret, msg, record_options,
                 now, done, ops>>

\* mutant of st_160: the recorder is not removed from the executor
st_160_NoRemove(t) ==
  /\ ~aborted /\ pc[t] = "st_160"
  /\ pc' = [pc EXCEPT ![t] = "st_161"]
  /\ UNCHANGED <<config, members, exec, heap, sub, ret, msg, record_options, now, fail, hist>>

\* line 160: executor->remove_node(recorder_); throws when the node is not
\* associated with the executor
st_160(t) ==
  /\ ~aborted /\ pc[t] = "st_160"
  /\ IF recorder_ \in nodes
     THEN /\ nodes' = nodes \ {recorder_}
          /\ pc' = [pc EXCEPT ![t] = "st_161"]
          /\ UNCHANGED fail
     ELSE /\ Throw("remove_node")
          /\ UNCHANGED <<nodes, pc>>
  /\ UNCHANGED <<config, members, group_free, shutdown, heap, sub, ret, msg,
                 record_options, now, hist>>

\* lines 161-163: recording = false; return
st_161(t) ==
  /\ ~aborted /\ pc[t] = "st_161"
  /\ recording' = FALSE
  /\ StopReturn(t)
  /\ UNCHANGED <<config, executor, storage_options_, recorder_, writer_, exec, heap, sub, msg, record_options, now, fail, cur, done>>

(* ------------------- the executor and control_callback ----------------- *)

\* mutant of CanBeTakenFrom: a reentrant callback group
CanBeTakenFrom_Reentrant == TRUE

\* The subscription is created without a callback group (line 44), so it
\* belongs to the node's default group, which is mutually exclusive: the
\* executor takes a callback of the group only while none is running.
CanBeTakenFrom == group_free

\* mutant of Take: the newest queued message is taken first
Take_Newest(t) ==
  /\ ~aborted /\ pc[t] = "spin" /\ ~shutdown
  /\ CanBeTakenFrom
  /\ queue # <<>>
  /\ msg' = [msg EXCEPT ![t] = queue[Len(queue)]]
  /\ queue' = SubSeq(queue, 1, Len(queue) - 1)
  /\ group_free' = FALSE
  /\ pc' = [pc EXCEPT ![t] = "cb_140"]
  /\ cur' = [cur EXCEPT ![t] = [begins |-> 0, ends |-> 0, before |-> recording, recorder |-> recorder_,
                                stamp |-> Null]]
  /\ UNCHANGED <<config, members, nodes, shutdown, heap, published, arrived, ret,
                 record_options, now, fail, done, ops>>

\* a worker thread of the executor takes the oldest queued message and
\* enters control_callback (lines 137-139)
Take(t) ==
  /\ ~aborted /\ pc[t] = "spin" /\ ~shutdown
  /\ CanBeTakenFrom
  /\ queue # <<>>
  /\ msg' = [msg EXCEPT ![t] = Head(queue)]
  /\ queue' = Tail(queue)
  /\ group_free' = FALSE
  /\ pc' = [pc EXCEPT ![t] = "cb_140"]
  /\ cur' = [cur EXCEPT ![t] = [begins |-> 0, ends |-> 0, before |-> recording, recorder |-> recorder_,
                                stamp |-> Null]]
  /\ UNCHANGED <<config, members, nodes, shutdown, heap, published, arrived, ret,
                 record_options, now, fail, done, ops>>

\* mutant of Cond140: the test of the recording flag is dropped
Cond140_NoStateTest(enable, rec) == enable

\* mutant of Cond140: the test of the message is dropped
Cond140_NoEnableTest(enable, rec) == ~rec

\* line 140: if (msg.enable_recording && !recording)
Cond140(enable, rec) == enable /\ ~rec

\* line 145: if (!msg.enable_recording && recording)
Cond145(enable, rec) == ~enable /\ rec

\* lines 140-144
cb_140(t) ==
  /\ ~aborted /\ pc[t] = "cb_140"
  /\ IF Cond140(msg[t], recording)
     THEN CallStart(t, "cb_145")
     ELSE /\ pc' = [pc EXCEPT ![t] = "cb_145"]
          /\ UNCHANGED <<ret, cur>>
  /\ UNCHANGED <<config, members, exec, heap, sub, msg, record_options, now, fail,
                 done, ops>>

\* lines 145-149
cb_145(t) ==
  /\ ~aborted /\ pc[t] = "cb_145"
  /\ IF Cond145(msg[t], recording)
     THEN CallStop(t, "cb_150")
     ELSE /\ pc' = [pc EXCEPT ![t] = "cb_150"]
          /\ UNCHANGED ret
  /\ UNCHANGED <<config, members, exec, heap, sub, msg, record_options, now, fail, hist>>

\* line 150: control_callback returns; the callback group is released
cb_150(t) ==
  /\ ~aborted /\ pc[t] = "cb_150"
  /\ done' = Processed([enable |-> msg[t], begins |-> cur[t].begins, ends |-> cur[t].ends,
                         before |-> cur[t].before, after |-> recording,
                         recorderBefore |-> cur[t].recorder, recorderAfter |-> recorder_,
                         units |-> RecorderUnits])
  /\ cur' = [cur EXCEPT ![t] = NoCur]
  /\ msg' = [msg EXCEPT ![t] = FALSE]
  /\ group_free' = TRUE
  /\ pc' = [pc EXCEPT ![t] = "spin"]
  /\ UNCHANGED <<config, members, nodes, shutdown, heap, sub, ret,
                 record_options, now, fail, ops>>

(* ---------------------------- environment ------------------------------ *)

\* a /bag_control message arrives; the subscription keeps the last
\* QueueDepth messages (line 44)
PublishUpTo(enable, n) ==
  /\ ~aborted /\ ~shutdown
  /\ published < n
  /\ published' = published + 1
  /\ arrived' = enable
  /\ queue' = IF Len(queue) < QueueDepth THEN Append(queue, enable)
              ELSE Append(Tail(queue), enable)
  /\ UNCHANGED <<config, members, exec, heap, thr, now, fail, hist>>

Publish(enable) == PublishUpTo(enable, MaxSignals)

\* the wall clock advances by a second
Tick ==
  /\ ~aborted
  /\ now < StartEpoch + MaxTime
  /\ now' = now + 1
  /\ UNCHANGED <<config, members, exec, heap, sub, thr, fail, hist>>

\* the process is asked to stop (SIGINT): spin() takes no more callbacks
Sigint ==
  /\ ~aborted /\ ~shutdown
  /\ pc["main"] = "spin"
  /\ shutdown' = TRUE
  /\ UNCHANGED <<config, members, nodes, group_free, heap, sub, thr, now, fail, hist>>

(* ------------------------------ shutdown ------------------------------- *)

\* line 217 returns: spin() has joined its threads
SpinReturn ==
  /\ ~aborted /\ shutdown
  /\ \A t \in Threads : pc[t] = "spin"
  /\ pc' = [t \in Threads |-> IF t = "main" THEN "main_219" ELSE "joined"]
  /\ UNCHANGED <<config, members, exec, heap, sub, ret, msg, record_options, now, fail, hist>>

\* lines 219-220, 74-77: rclcpp::shutdown(); return 0 releases the node,
\* whose destructor calls stop_recording()
main_219 ==
  /\ ~aborted /\ pc["main"] = "main_219"
  /\ CallStop("main", "exit")
  /\ UNCHANGED <<config, members, exec, heap, sub, msg, record_options, now, fail, hist>>

(* --------------------------- specification ----------------------------- *)

\* the steps of the program's threads
Step ==
  \/ main_213 \/ main_215 \/ main_217
  \/ \E t \in Threads :
       \/ sr_96(t) \/ sr_106(t) \/ sr_110(t) \/ sr_122(t) \/ sr_126(t) \/ sr_127(t) \/ sr_128(t)
       \/ st_157(t) \/ st_159(t) \/ st_160(t) \/ st_161(t)
       \/ Take(t) \/ cb_140(t) \/ cb_145(t) \/ cb_150(t)
  \/ Tick \/ Sigint \/ SpinReturn \/ main_219

Next ==
  \/ Step
  \/ \E enable \in BOOLEAN : Publish(enable)

Spec == Init /\ [][Next]_vars

\* a caller of the public start_recording() calls it again while the
\* controller records, before spin()
ApiStart ==
  /\ ~aborted /\ pc["main"] = "main_217"
  /\ recording
  /\ Len(recorders) <= MaxRedundantStarts
  /\ CallStart("main", "main_217")
  /\ UNCHANGED <<config, members, exec, heap, sub, msg, record_options, now, fail,
                 done, ops>>

\* the program with a redundant caller of the public start_recording()
NextApi ==
  \/ Next
  \/ ApiStart

SpecApi == Init /\ [][NextApi]_vars

\* the path namer alone: launch at any of the sample clock readings and run
\* the startup start_recording
InitPath == \E t0 \in TimeSamples : Boot(t0)

NextPath ==
  \/ main_213 \/ main_215
  \/ \E t \in Threads :
       sr_96(t) \/ sr_106(t) \/ sr_110(t) \/ sr_122(t) \/ sr_126(t) \/ sr_127(t) \/ sr_128(t)

SpecPath == InitPath /\ [][NextPath]_vars

(* ------------------------------ properties ----------------------------- *)

\* a configuration the specification calls valid: a positive rotation
\* duration and a non-empty topic list whose wildcard, if any, stands alone
ValidConfig ==
  /\ file_duration_ > 0
  /\ logged_topics_ # <<>>
  /\ (\E i \in 1..Len(logged_topics_) : logged_topics_[i] = "*") => Len(logged_topics_) = 1

\* the steps of start_recording that can fail
BeginFailures == {"Recorder", "add_node", "record"}

\* no thread is inside start_recording or stop_recording
Quiescent == \A t \in Threads : ~InStart(t) /\ ~InStop(t)

\* C1: at most one recorder unit is registered with the executor at any
\* time, and no thread runs start_recording while another thread runs
\* stop_recording.
C1_AtMostOneSession ==
  /\ Cardinality(RecorderUnits) <= 1
  /\ \A t, u \in Threads : t # u => ~(InStart(t) /\ InStop(u))

\* C1 witness: a control signal's begin is in progress on one thread while
\* another thread is free and a further signal waits in the queue
C1_Witness ==
  \E t, u \in Threads :
    /\ t # u /\ pc[t] = "sr_127" /\ ret[t] = "cb_145" /\ pc[u] = "spin"
    /\ queue # <<>> /\ Cardinality(RecorderUnits) = 1

\* C2: two consecutive enable signals, the first processed while Idle,
\* invoke start_recording exactly once between them, and the state after
\* the second equals the state after the first: Recording, the same single
\* registered recorder.
C2_EnableIdempotent ==
  (Len(done) = 2 /\ done[1].enable /\ done[2].enable /\ ~done[1].before) =>
    /\ done[1].begins + done[2].begins = 1
    /\ done[1].after /\ done[2].after
    /\ done[2].recorderAfter = done[1].recorderAfter
    /\ done[2].units = done[1].units
    /\ done[2].units = {done[2].recorderAfter}

\* C2 witness: two consecutive enable signals were processed from Idle
C2_Witness ==
  Len(done) = 2 /\ done[1].enable /\ done[2].enable /\ ~done[1].before /\ done[2].after

\* C3: a disable signal processed while Idle calls the recorder's stop zero
\* times and leaves the controller Idle.
C3_DisableWhileIdle ==
  \A i \in 1..Len(done) :
    (~done[i].enable /\ ~done[i].before) =>
      /\ done[i].ends = 0
      /\ done[i].begins = 0
      /\ ~done[i].after

\* C3 witness: a disable signal was processed while Idle
C3_Witness ==
  \E i \in 1..Len(done) : ~done[i].enable /\ ~done[i].before /\ ~done[i].after

\* C4: under a valid configuration, once a start_recording followed
\* directly by a stop_recording has completed, the controller is Idle and
\* no recorder unit is registered with the executor.
C4_StartThenStop ==
  (ValidConfig /\ ops = <<"start", "stop">> /\ Quiescent) =>
    /\ ~recording
    /\ RecorderUnits = {}

\* C4 witness: the startup start was followed directly by a completed stop
C4_Witness ==
  /\ ValidConfig /\ ops = <<"start", "stop">> /\ Quiescent
  /\ Len(recorders) = 1 /\ recorders[1].state = "stopped"

\* C6: the first control signal processed finds the controller Recording
\* (the startup start needs no signal); if that signal is a disable the
\* controller is then Idle; an enable processed right after a disable
\* leaves it Recording with a recorder that did not exist before.
C6_LaunchDisableEnable ==
  /\ ((\A t \in Threads : pc[t] = "spin") /\ done = <<>>) =>
        (recording /\ RecorderUnits = {recorder_})
  /\ \A t \in Threads : (pc[t] = "cb_140" /\ done = <<>>) => cur[t].before
  /\ (Len(done) = 1 /\ ~done[1].enable) =>
        (done[1].before /\ ~done[1].after /\ done[1].units = {})
  /\ (Len(done) = 2 /\ done[1].before /\ ~done[1].enable /\ done[2].enable) =>
        /\ done[2].after
        /\ done[2].begins = 1
        /\ done[2].recorderAfter > done[1].recorderBefore
        /\ done[2].units = {done[2].recorderAfter}

\* C6 witness: after launch the first two signals, a disable and then an
\* enable, were processed and the controller records again
C6_Witness ==
  /\ published = 2 /\ Len(done) = 2
  /\ ~done[1].enable /\ done[1].before /\ done[2].enable /\ done[2].after
  /\ recording

\* C7: when start_recording fails at the recorder's construction, at its
\* registration or at record(), the recording flag is false.
C7_BeginFailureStaysIdle ==
  exc \in BeginFailures => ~recording

\* C7 witness: record() failed after the recorder was registered
C7_Witness ==
  exc = "record" /\ recorder_ \in nodes /\ ~recording

\* C8 (as claimed): when the recorder's stop fails while Recording, the
\* controller is Idle afterwards and no recorder unit stays registered.
C8_EndFailureReleases ==
  exc = "stop" => (~recording /\ RecorderUnits = {})

\* C9 (as claimed): after a failure during begin the controller is Idle
\* with no recorder unit registered and still runs, so that a later enable
\* signal can start again.
C9_BeginFailureRetryable ==
  exc \in BeginFailures => (~aborted /\ ~recording /\ RecorderUnits = {})

\* C10 (as claimed): under an invalid configuration no recording session
\* is ever active.
C10_InvalidConfigNeverRecords ==
  ~ValidConfig => (~recording /\ RecorderUnits = {})

\* C11: the topic scope handed to every recorder is determined by the
\* configured list alone: a leading "*" gives record-all with no explicit
\* topics, anything else gives exactly the configured names.
C11_TopicScope ==
  \A i \in 1..Len(recorders) :
    logged_topics_ # <<>> =>
      recorders[i].options =
        IF logged_topics_[1] = "*" THEN [all |-> TRUE, topics |-> <<>>]
        ELSE [all |-> FALSE, topics |-> logged_topics_]

\* C11 witness: two sessions were started from a list whose first element
\* is the wildcard, followed by a name
C11_Witness ==
  /\ Len(recorders) = 2 /\ logged_topics_ = <<"*", "/rosout">>
  /\ recorders[2].options.all /\ recorders[2].state = "recording"

\* a sequence without repeated elements
NoDuplicates(seq) == \A i, j \in 1..Len(seq) : i # j => seq[i] # seq[j]

\* C12 (as claimed): under a valid configuration, the explicit topic list
\* handed to a recorder holds each configured name once.
C12_TopicsDeduplicated ==
  \A i \in 1..Len(recorders) :
    (ValidConfig /\ ~recorders[i].options.all) => NoDuplicates(recorders[i].options.topics)

\* the paths std::put_time gives for the sample clock readings
SamplePaths ==
  [time \in TimeSamples |->
     CASE time = 0 -> "/data/Bag_1970_01_01_00_00_00"
       [] time = 951825609 -> "/data/Bag_2000_02_29_12_00_09"
       [] time = 1677628800 -> "/data/Bag_2023_03_01_00_00_00"
       [] time = 1709251199 -> "/data/Bag_2024_02_29_23_59_59"
       [] time = 1727838245 -> "/data/Bag_2024_10_02_03_04_05"
       [] time = 1735689599 -> "/data/Bag_2024_12_31_23_59_59"
       [] time = 1735689600 -> "/data/Bag_2025_01_01_00_00_00"]

\* C13: the output path is baseDir + "/Bag_" + the UTC time written as
\* YYYY_MM_DD_HH_MM_SS with zero-padded fields; 2024-10-02T03:04:05Z under
\* "/data" gives "/data/Bag_2024_10_02_03_04_05".
C13_PathFormat ==
  storage_options_.uri # "" => storage_options_.uri = SamplePaths[now]

\* C13 witness: a session was started at 2024-10-02T03:04:05Z
C13_Witness ==
  /\ now = 1727838245 /\ recording
  /\ recorders[recorder_].storage.uri = "/data/Bag_2024_10_02_03_04_05"

\* C14: every session has a writer and a recorder of its own and the path
\* derived from the clock at its start; the recorder in use while Recording
\* is the newest one and has never been stopped; sessions started in
\* different seconds have different paths.
C14_FreshSession ==
  /\ \A i \in 1..Len(recorders) :
       recorders[i].storage.uri = data_folder_ \o "/Bag_" \o put_time(gmtime(recorders[i].at))
  /\ \A i, j \in 1..Len(recorders) :
       i < j =>
         /\ recorders[i].writer # recorders[j].writer
         /\ recorders[i].at <= recorders[j].at
         /\ (recorders[j].at - recorders[i].at >= 1 =>
               recorders[i].storage.uri # recorders[j].storage.uri)
  /\ (recording /\ Quiescent) =>
       (recorder_ = Len(recorders) /\ recorders[recorder_].state = "recording")

\* C14 witness: a second session records, started a second after the first
C14_Witness ==
  /\ Len(recorders) = 2 /\ recording /\ Quiescent
  /\ recorders[2].at = recorders[1].at + 1
  /\ recorders[1].state = "stopped"

\* C15 (as claimed): under a valid configuration, while the executor spins
\* and between operations, the stored handle is absent while Idle and is
\* the recording recorder of the current session while Recording.
C15_HandleClearedWhenIdle ==
  (ValidConfig /\ pc["main"] = "spin" /\ Quiescent /\ ~aborted) =>
    IF recording
    THEN get_recorder # Null /\ recorders[get_recorder].state = "recording"
    ELSE get_recorder = Null

\* C16 (as claimed): under a valid configuration, before spin(), however
\* often start_recording was called, there is one recorder, it is the
\* stored one, and it is the only recorder unit registered.
C16_RedundantStartNoOp ==
  (ValidConfig /\ pc["main"] = "main_217" /\ recording) =>
    /\ Len(recorders) = 1
    /\ recorder_ = 1
    /\ RecorderUnits = {1}

\* C17: once every control signal that arrived has been processed without
\* a failure, the controller records exactly if the signal that arrived
\* last was an enable.
C17_ArrivalOrder ==
  ((\A t \in Threads : pc[t] = "spin") /\ queue = <<>> /\ published > 0 /\ ~aborted) =>
    (recording <=> arrived)

\* C17 witness: three signals arrived, the last two of them different, and
\* all were processed
C17_Witness ==
  /\ (\A t \in Threads : pc[t] = "spin") /\ queue = <<>> /\ ~aborted
  /\ published = 3 /\ Len(done) = 2 /\ done[1].enable # done[2].enable
  /\ done[1].before # done[1].after

\* the storage options a session started at clock reading time must have
ExpectedStorage(time) ==
  [uri |-> data_folder_ \o "/Bag_" \o put_time(gmtime(time)), storage_id |-> "mcap",
   max_bagfile_size |-> 0, max_bagfile_duration |-> file_duration_,
   max_cache_size |-> 10485760, storage_preset_profile |-> "", snapshot_mode |-> FALSE]

\* C18: every recorder, whatever came before it, was constructed with the
\* path of its start, the configured rotation duration, size limit 0, a
\* cache of 10485760 bytes and no snapshot mode; and no step of the program
\* changes the configuration.
C18_StorageOptions ==
  /\ [](\A i \in 1..Len(recorders) : recorders[i].storage = ExpectedStorage(recorders[i].at))
  /\ [][UNCHANGED config]_vars

\* C18 witness: a second session was constructed after a disable and an
\* enable signal, with a rotation duration of 60 seconds
C18_Witness ==
  /\ Len(recorders) = 2 /\ recording /\ published >= 2
  /\ recorders[1].state = "stopped"
  /\ recorders[2].storage.max_bagfile_duration = 60

\* C19: start_recording runs only while the flag is false and after every
\* earlier session was stopped; the recorder's stop is reached only while
\* the flag is true, on a recorder that records.
C19_NoDoubleTransition ==
  \A t \in Threads :
    /\ InStart(t) => ~recording
    /\ pc[t] \in {"sr_96", "sr_106", "sr_110", "sr_122"} =>
         \A i \in 1..Len(recorders) : recorders[i].state = "stopped"
    /\ pc[t] \in {"st_159", "st_160", "st_161"} => (recording /\ recorder_ = Len(recorders))
    /\ (pc[t] = "st_159" /\ ~aborted) => recorders[recorder_].state = "recording"

\* C19 witness: the destructor ends a session that an enable signal began
C19_Witness ==
  /\ pc["main"] = "st_159" /\ ret["main"] = "exit" /\ ~aborted
  /\ Len(recorders) = 2 /\ recorders[1].state = "stopped"

\* C20 (as claimed): under a valid configuration, between operations and
\* after an operation failed, the flag is true exactly if one recorder unit
\* is registered.
C20_FlagMatchesRegistry ==
  (ValidConfig /\ (Quiescent \/ aborted)) => (recording <=> Cardinality(RecorderUnits) = 1)

====
